---- MODULE Spec2Model ----
(***************************************************************************)
(* Model of zanshi.py: VoiceFanControlSystem.                              *)
(*                                                                         *)
(* Two execution contexts: the supervisory context running start() (pc in  *)
(* sup) and the recognition thread running voice_recognition() (pc in      *)
(* rec).  They share the Event self.running, the Modbus client and         *)
(* self.fan_state.                                                         *)
(*                                                                         *)
(* A text is a sequence of characters.  Each Chinese character of the      *)
(* source is written as its pinyin syllable: "da","kai","feng","shan" is   *)
(* the four-character phrase of line 119, "sp" is the ASCII space,         *)
(* "fwcomma" and "fwstop" are the full-width comma and full stop of line   *)
(* 115, and "comma" is the ASCII comma (which line 115 does not remove).   *)
(***************************************************************************)
EXTENDS Integers, Sequences, FiniteSets, TLC

VARIABLES
    sup,        \* position of the supervisory context in start()
    rec,        \* position of the recognition thread
    running,    \* self.running (threading.Event)
    fan_state,  \* self.fan_state
    client,     \* self.client: "None", "unopened", "open", "closed"
    audio,      \* self.audio: "ready", "terminated"
    text,       \* result['text'] handed to voice_command
    state,      \* control(): parameter state
    attempt,    \* control(): loop variable attempt
    response,   \* control(): local response ("none", "ok", "err")
    frames,     \* number of stream.read calls issued so far
    \* ---- history variables (observations, not program state) ----
    session,    \* outcome of the session open in modbus_connect
    probe,      \* outcome of the read probe in modbus_connect
    connected,  \* value returned by modbus_connect ("none" before it returns)
    intent,     \* branch taken by the last voice_command ("None" before it)
    preState,   \* fan_state when the last voice_command was entered
    outcome,    \* how the last TurnOn/TurnOff dispatch ended
    log,        \* transport write calls issued by the last voice_command
    sleeps,     \* time.sleep(retry_delay) calls made by the last control()
    flagSets,   \* number of clear->set transitions of self.running
    flagClears, \* number of set->clear transitions of self.running
    clearer,    \* who made the set->clear transition
    shutdownSeen,      \* a Shutdown intent has been dispatched
    clearedDuringRead, \* start() cleared the flag while the thread sat in stream.read
    interrupted,       \* KeyboardInterrupt was delivered to start()
    joinTimedOut,      \* voice_thread.join(timeout=1) returned with the thread alive
    max_retries, \* self.max_retries
    args,        \* arguments of the calls in log: << address, value, slave >>
    everFailed,  \* some control() call of this run has returned False
    closes,      \* number of self.client.close() calls
    terminates,  \* number of self.audio.terminate() calls
    lastSuccess  \* state asked for by the last control() that returned True

vars == << sup, rec, running, fan_state, client, audio, text, state, attempt,
           response, frames, session, probe, connected, intent, preState,
           outcome, log, sleeps, flagSets, flagClears, clearer, shutdownSeen,
           clearedDuringRead, interrupted, joinTimedOut, max_retries, args,
           everFailed, closes, terminates, lastSuccess >>

ctlVars  == << state, attempt, response >>
cmdVars  == << text, intent, preState, outcome, log, sleeps, shutdownSeen >>
flagVars == << running, flagSets, flagClears, clearer >>
cfgVars  == << max_retries >>
histVars == << args, everFailed, closes, terminates, lastSuccess >>

\* ---------------------------------------------------------------- bounds
MaxFrames == 3   \* frames the recognition loop may pull in one run
MaxChunks == 3   \* chunks concatenated into an utterance (classification check)
MaxRetries == 3  \* largest self.max_retries of the retry-policy check

\* ------------------------------------------------------------- constants
slave_address == 2
fan_register == 0

\* ------------------------------------------------------- intent parsing
Punct == {"sp", "fwcomma", "fwstop"}

\* text.replace(" ", "").replace("，", "").replace("。", "")
Cleaned(t) == SelectSeq(t, LAMBDA c : c \notin Punct)

\* Python's `p in s` on strings: p occurs as a contiguous substring of s
Contains(s, p) ==
    \E i \in 1..(Len(s) - Len(p) + 1) : SubSeq(s, i, i + Len(p) - 1) = p

OnPhrases  == { <<"da","kai","feng","shan">>, <<"kai","qi","feng","shan">>,
                <<"qi","dong","feng","shan">> }
OffPhrases == { <<"guan","bi","feng","shan">>, <<"guan","diao","feng","shan">>,
                <<"ting","zhi","feng","shan">> }
ExitPhrase == <<"tui","chu","xi","tong">>

\* the if / elif / elif / else chain of voice_command
Classify_offFirst(c) ==
    IF \E p \in OffPhrases : Contains(c, p) THEN "TurnOff"
    ELSE IF \E p \in OnPhrases : Contains(c, p) THEN "TurnOn"
    ELSE IF Contains(c, ExitPhrase) THEN "Shutdown"
    ELSE "Unknown"

Classify_unknownExits(c) ==
    IF \E p \in OnPhrases : Contains(c, p) THEN "TurnOn"
    ELSE IF \E p \in OffPhrases : Contains(c, p) THEN "TurnOff"
    ELSE "Shutdown"

Classify(c) ==
    IF \E p \in OnPhrases : Contains(c, p) THEN "TurnOn"
    ELSE IF \E p \in OffPhrases : Contains(c, p) THEN "TurnOff"
    ELSE IF Contains(c, ExitPhrase) THEN "Shutdown"
    ELSE "Unknown"

\* utterances the speech engine may finalize during a run
Heard == { <<"da","kai","feng","shan">>,
           <<"da","kai","sp","feng","shan">>,
           <<"guan","bi","feng","shan">>,
           <<"guan","bi","feng","shan","tui","chu","xi","tong">>,
           ExitPhrase,
           <<"sui","bian">> }

\* ------------------------------------------------------------ initial state
Init ==
    /\ sup = "Idle"
    /\ rec = "idle"
    /\ running = FALSE
    /\ fan_state = FALSE
    /\ client = "None"
    /\ audio = "ready"
    /\ text = << >>
    /\ state = FALSE
    /\ attempt = 0
    /\ response = "none"
    /\ frames = 0
    /\ session = "none"
    /\ probe = "none"
    /\ connected = "none"
    /\ intent = "None"
    /\ preState = FALSE
    /\ outcome = "none"
    /\ log = << >>
    /\ sleeps = 0
    /\ flagSets = 0
    /\ flagClears = 0
    /\ clearer = "none"
    /\ shutdownSeen = FALSE
    /\ clearedDuringRead = FALSE
    /\ interrupted = FALSE
    /\ joinTimedOut = FALSE
    /\ max_retries = 2
    /\ args = << >>
    /\ everFailed = FALSE
    /\ closes = 0
    /\ terminates = 0
    /\ lastSuccess = "none"

\* ------------------------------------------------------ self.running (Event)
\* Event.set()
SetFlag ==
    /\ running' = TRUE
    /\ flagSets' = IF running THEN flagSets ELSE flagSets + 1
    /\ UNCHANGED << flagClears, clearer >>

\* Event.clear(), called by `who`
ClearFlag(who) ==
    /\ running' = FALSE
    /\ flagClears' = IF running THEN flagClears + 1 ELSE flagClears
    /\ clearer' = IF running THEN who ELSE clearer
    /\ UNCHANGED flagSets

\* ------------------------------------------------------------ modbus_connect
SessionOutcomes == {"opened", "refused", "fault"}
ProbeOutcomes   == {"value", "error", "fault"}

\* What modbus_connect returns: the ConnectionError of line 53 and any
\* exception raised inside the try block end in `return False`; an error
\* response to the probe does not.
ConnectResult(s, p) == s = "opened" /\ p # "fault"

\* start(), line 169-172: where start() goes with the value of modbus_connect
AfterConnect_ignored(ok) == "SetRunning"

AfterConnect(ok) == IF ok THEN "SetRunning" ELSE "Terminated"

\* start() is called
start ==
    /\ sup = "Idle"
    /\ sup' = "Connecting"
    /\ UNCHANGED << rec, fan_state, client, audio, frames, session, probe,
                    connected, clearedDuringRead, interrupted, joinTimedOut >>
    /\ UNCHANGED << ctlVars, cmdVars, flagVars >>
    /\ UNCHANGED << cfgVars, histVars >>

modbus_connect_sync ==
    /\ sup = "Connecting"
    /\ \E s \in SessionOutcomes :
       \E p \in (IF s = "opened" THEN ProbeOutcomes ELSE {"none"}) :
       \E reg \in BOOLEAN :
          /\ session' = s
          /\ probe' = p
          /\ client' = CASE s = "opened"  -> "open"
                         [] s = "refused" -> "unopened"
                         [] OTHER         -> "None"
          /\ fan_state' = IF p = "value" THEN reg ELSE fan_state
          /\ connected' = IF ConnectResult(s, p) THEN "True" ELSE "False"
          /\ sup' = AfterConnect(ConnectResult(s, p))
    /\ UNCHANGED << rec, audio, frames, clearedDuringRead,
                    interrupted, joinTimedOut >>
    /\ UNCHANGED << ctlVars, cmdVars, flagVars >>
    /\ UNCHANGED << cfgVars, histVars >>

modbus_connect ==
    /\ sup = "Connecting"
    /\ \E s \in SessionOutcomes :
       \E p \in (IF s = "opened" THEN ProbeOutcomes ELSE {"none"}) :
          /\ session' = s
          /\ probe' = p
          /\ client' = CASE s = "opened"  -> "open"
                         [] s = "refused" -> "unopened"
                         [] OTHER         -> "None"
          /\ connected' = IF ConnectResult(s, p) THEN "True" ELSE "False"
          /\ sup' = AfterConnect(ConnectResult(s, p))
    /\ UNCHANGED << rec, fan_state, audio, frames, clearedDuringRead,
                    interrupted, joinTimedOut >>
    /\ UNCHANGED << ctlVars, cmdVars, flagVars >>
    /\ UNCHANGED << cfgVars, histVars >>

\* ------------------------------------------------------------------- start
\* line 172: self.running.set()
start_set_running ==
    /\ sup = "SetRunning"
    /\ SetFlag
    /\ sup' = "Launch"
    /\ UNCHANGED << rec, fan_state, client, audio, frames, session, probe,
                    connected, clearedDuringRead, interrupted, joinTimedOut >>
    /\ UNCHANGED << ctlVars, cmdVars >>
    /\ UNCHANGED << cfgVars, histVars >>

\* lines 175-177: the daemon thread is created and started
start_launch ==
    /\ sup = "Launch"
    /\ rec = "idle"
    /\ rec' = "open"
    /\ sup' = "Running"
    /\ UNCHANGED << fan_state, client, audio, frames, session, probe,
                    connected, clearedDuringRead, interrupted, joinTimedOut >>
    /\ UNCHANGED << ctlVars, cmdVars, flagVars >>
    /\ UNCHANGED << cfgVars, histVars >>

\* lines 180-181: the sleep-poll sees the flag cleared and falls into finally
start_wait ==
    /\ sup = "Running"
    /\ ~running
    /\ sup' = "Stopping"
    /\ UNCHANGED << rec, fan_state, client, audio, frames, session, probe,
                    connected, clearedDuringRead, interrupted, joinTimedOut >>
    /\ UNCHANGED << ctlVars, cmdVars, flagVars >>
    /\ UNCHANGED << cfgVars, histVars >>

\* lines 182-183: KeyboardInterrupt delivered inside the try block
KeyboardInterrupt ==
    /\ sup = "Running"
    /\ sup' = "Stopping"
    /\ interrupted' = TRUE
    /\ UNCHANGED << rec, fan_state, client, audio, frames, session, probe,
                    connected, clearedDuringRead, joinTimedOut >>
    /\ UNCHANGED << ctlVars, cmdVars, flagVars >>
    /\ UNCHANGED << cfgVars, histVars >>

\* lines 185-189: the order of the statements of the finally block
FinallyNext_closeFirst(pc) ==
    CASE pc = "Stopping" -> "Closing"
      [] pc = "Closing"  -> "Joining"
      [] pc = "Joining"  -> "Releasing"
      [] OTHER           -> "Terminated"

FinallyNext(pc) ==
    CASE pc = "Stopping" -> "Joining"
      [] pc = "Joining"  -> "Closing"
      [] pc = "Closing"  -> "Releasing"
      [] OTHER           -> "Terminated"

\* line 185: self.running.clear()
finally_clear ==
    /\ sup = "Stopping"
    /\ ClearFlag("start")
    /\ clearedDuringRead' = (clearedDuringRead \/ (running /\ rec = "read"))
    /\ sup' = FinallyNext(sup)
    /\ UNCHANGED << rec, fan_state, client, audio, frames, session, probe,
                    connected, interrupted, joinTimedOut >>
    /\ UNCHANGED << ctlVars, cmdVars >>
    /\ UNCHANGED << cfgVars, histVars >>

\* line 186: voice_thread.join(timeout=1) returns, the thread ended or not
finally_join ==
    /\ sup = "Joining"
    /\ joinTimedOut' = (rec # "done")
    /\ sup' = FinallyNext(sup)
    /\ UNCHANGED << rec, fan_state, client, audio, frames, session, probe,
                    connected, clearedDuringRead, interrupted >>
    /\ UNCHANGED << ctlVars, cmdVars, flagVars >>
    /\ UNCHANGED << cfgVars, histVars >>

\* line 187: self.client.close()
finally_close_ifJoined ==
    /\ sup = "Closing"
    /\ client' = IF joinTimedOut THEN client ELSE "closed"
    /\ closes' = IF joinTimedOut THEN closes ELSE closes + 1
    /\ sup' = FinallyNext(sup)
    /\ UNCHANGED << rec, fan_state, audio, frames, session, probe,
                    connected, clearedDuringRead, interrupted, joinTimedOut >>
    /\ UNCHANGED << ctlVars, cmdVars, flagVars >>
    /\ UNCHANGED << max_retries, args, everFailed, terminates, lastSuccess >>

finally_close_reset ==
    /\ sup = "Closing"
    /\ client' = "closed"
    /\ closes' = closes + 1
    /\ fan_state' = FALSE
    /\ sup' = FinallyNext(sup)
    /\ UNCHANGED << rec, audio, frames, session, probe,
                    connected, clearedDuringRead, interrupted, joinTimedOut >>
    /\ UNCHANGED << ctlVars, cmdVars, flagVars >>
    /\ UNCHANGED << max_retries, args, everFailed, terminates, lastSuccess >>

finally_close ==
    /\ sup = "Closing"
    /\ client' = "closed"
    /\ sup' = FinallyNext(sup)
    /\ UNCHANGED << rec, fan_state, audio, frames, session, probe,
                    connected, clearedDuringRead, interrupted, joinTimedOut >>
    /\ UNCHANGED << ctlVars, cmdVars, flagVars >>
    /\ closes' = closes + 1
    /\ UNCHANGED << max_retries, args, everFailed, terminates, lastSuccess >>

\* lines 188-189: self.audio.terminate(); start() returns
finally_terminate ==
    /\ sup = "Releasing"
    /\ audio' = "terminated"
    /\ sup' = FinallyNext(sup)
    /\ UNCHANGED << rec, fan_state, client, frames, session, probe,
                    connected, clearedDuringRead, interrupted, joinTimedOut >>
    /\ UNCHANGED << ctlVars, cmdVars, flagVars >>
    /\ terminates' = terminates + 1
    /\ UNCHANGED << max_retries, args, everFailed, closes, lastSuccess >>

\* ------------------------------------------------------- voice_recognition
\* lines 140-151: the input stream is opened
rec_open ==
    /\ rec = "open"
    /\ rec' = "check"
    /\ UNCHANGED << sup, fan_state, client, audio, frames, session, probe,
                    connected, clearedDuringRead, interrupted, joinTimedOut >>
    /\ UNCHANGED << ctlVars, cmdVars, flagVars >>
    /\ UNCHANGED << cfgVars, histVars >>

\* line 153: the loop test
LoopTest_always == TRUE

LoopTest == running

\* line 153: `while self.running.is_set()`; a true test enters stream.read
rec_check ==
    /\ rec = "check"
    /\ IF LoopTest
          THEN /\ frames < MaxFrames
               /\ frames' = frames + 1
               /\ rec' = "read"
          ELSE /\ frames' = frames
               /\ rec' = "stop_stream"
    /\ UNCHANGED << sup, fan_state, client, audio, session, probe,
                    connected, clearedDuringRead, interrupted, joinTimedOut >>
    /\ UNCHANGED << ctlVars, cmdVars, flagVars >>
    /\ UNCHANGED << cfgVars, histVars >>

\* lines 154-156: stream.read returns; an empty frame is skipped
rec_read ==
    /\ rec = "read"
    /\ \E empty \in BOOLEAN : rec' = IF empty THEN "check" ELSE "accept"
    /\ UNCHANGED << sup, fan_state, client, audio, frames, session, probe,
                    connected, clearedDuringRead, interrupted, joinTimedOut >>
    /\ UNCHANGED << ctlVars, cmdVars, flagVars >>
    /\ UNCHANGED << cfgVars, histVars >>

\* lines 158-161: AcceptWaveform; a finalized non-empty text goes to voice_command
rec_accept ==
    /\ rec = "accept"
    /\ \E finalized \in BOOLEAN : \E t \in Heard \cup { << >> } :
          IF finalized /\ t # << >>
             THEN /\ text' = t
                  /\ rec' = "dispatch"
             ELSE /\ text' = text
                  /\ rec' = "check"
    /\ UNCHANGED << sup, fan_state, client, audio, frames, session, probe,
                    connected, clearedDuringRead, interrupted, joinTimedOut,
                    intent, preState, outcome, log, sleeps, shutdownSeen >>
    /\ UNCHANGED << ctlVars, flagVars >>
    /\ UNCHANGED << cfgVars, histVars >>

\* lines 163-165: the stream is closed and the thread ends
rec_stop ==
    /\ rec = "stop_stream"
    /\ rec' = "done"
    /\ UNCHANGED << sup, fan_state, client, audio, frames, session, probe,
                    connected, clearedDuringRead, interrupted, joinTimedOut >>
    /\ UNCHANGED << ctlVars, cmdVars, flagVars >>
    /\ UNCHANGED << cfgVars, histVars >>

\* line 176 and lines 191-193: start() has returned, the interpreter exits
\* and the daemon thread, if still alive, is abandoned where it stands
process_exit ==
    /\ sup = "Terminated"
    /\ rec \notin {"idle", "done", "killed"}
    /\ rec' = "killed"
    /\ UNCHANGED << sup, fan_state, client, audio, frames, session, probe,
                    connected, clearedDuringRead, interrupted, joinTimedOut >>
    /\ UNCHANGED << ctlVars, cmdVars, flagVars >>
    /\ UNCHANGED << cfgVars, histVars >>

\* ------------------------------------------------------------ voice_command
\* lines 120 and 126: the branch calls control() only when the fan is not
\* already in the wanted state
NeedsControl_noguard(i, fs) == i \in {"TurnOn", "TurnOff"}

NeedsControl(i, fs) == (i = "TurnOn" /\ ~fs) \/ (i = "TurnOff" /\ fs)

\* the state the intent asks for
Desired(i) == (i = "TurnOn")

\* line 132: self.running.clear()
shutdown_branch_noclear == UNCHANGED flagVars

shutdown_branch_set == SetFlag

shutdown_branch == ClearFlag("voice_command")

\* lines 113-136; a call of control() runs up to its first transport call
voice_command ==
    /\ rec = "dispatch"
    /\ LET i == Classify(Cleaned(text)) IN
         /\ intent' = i
         /\ preState' = fan_state
         /\ log' = << >>
         /\ sleeps' = 0
         /\ shutdownSeen' = (shutdownSeen \/ i = "Shutdown")
         /\ IF i = "Shutdown"
               THEN shutdown_branch
               ELSE UNCHANGED flagVars
         /\ IF NeedsControl(i, fan_state)
               THEN /\ state' = Desired(i)
                    /\ attempt' = 0
                    /\ response' = "none"
                    /\ outcome' = "pending"
                    /\ rec' = "write_register"
               ELSE /\ UNCHANGED ctlVars
                    /\ outcome' = IF i \in {"TurnOn", "TurnOff"}
                                     THEN "unchanged" ELSE "none"
                    /\ rec' = "check"
    /\ UNCHANGED << sup, fan_state, client, audio, text, frames, session, probe,
                    connected, clearedDuringRead, interrupted, joinTimedOut >>
    /\ args' = << >>
    /\ UNCHANGED << max_retries, everFailed, closes, terminates, lastSuccess >>

\* ------------------------------------------------------------------ control
WriteOutcomes == {"ok", "err", "fault"}

\* line 77: value = 1 if state else 0
Value(st) == IF st THEN 1 ELSE 0

\* lines 83-87: the arguments of write_register
RegisterArgs(st) == << fan_register, Value(st), slave_address >>

\* lines 91-95: the arguments of write_coil
CoilArgs_negated(st) == << fan_register, 1 - Value(st), slave_address >>

CoilArgs(st) == << fan_register, Value(st), slave_address >>

\* lines 104-105: where an exception raised inside the try block lands
AfterFault_uncaught == "crashed"

AfterFault == "attempt_end"

\* lines 83-89: write_register; an error response leads to the coil write,
\* an exception to the except clause
control_write_register ==
    /\ rec = "write_register"
    /\ \E o \in WriteOutcomes :
          /\ log' = Append(log, << "write_register", o >>)
          /\ response' = IF o = "fault" THEN response ELSE o
          /\ rec' = CASE o = "ok"  -> "check_response"
                      [] o = "err" -> "write_coil"
                      [] OTHER     -> AfterFault
    /\ UNCHANGED << sup, fan_state, client, audio, text, state, attempt, frames,
                    session, probe, connected, intent, preState, outcome, sleeps,
                    shutdownSeen, clearedDuringRead, interrupted, joinTimedOut >>
    /\ UNCHANGED flagVars
    /\ args' = Append(args, RegisterArgs(state))
    /\ UNCHANGED << max_retries, everFailed, closes, terminates, lastSuccess >>

\* lines 91-95: the coil fallback
control_write_coil ==
    /\ rec = "write_coil"
    /\ \E o \in WriteOutcomes :
          /\ log' = Append(log, << "write_coil", o >>)
          /\ response' = IF o = "fault" THEN response ELSE o
          /\ rec' = IF o = "fault" THEN AfterFault ELSE "check_response"
    /\ UNCHANGED << sup, fan_state, client, audio, text, state, attempt, frames,
                    session, probe, connected, intent, preState, outcome, sleeps,
                    shutdownSeen, clearedDuringRead, interrupted, joinTimedOut >>
    /\ UNCHANGED flagVars
    /\ args' = Append(args, CoilArgs(state))
    /\ UNCHANGED << max_retries, everFailed, closes, terminates, lastSuccess >>

\* line 97: the test that lets control() record the new state
Confirmed_always(r) == TRUE

Confirmed_inverted(r) == r # "ok"

Confirmed(r) == r = "ok"

\* lines 97-102: a non-error response sets fan_state and returns True
control_check_response ==
    /\ rec = "check_response"
    /\ IF Confirmed(response)
          THEN /\ fan_state' = state
               /\ outcome' = "success"
               /\ lastSuccess' = IF state THEN "on" ELSE "off"
               /\ rec' = "check"
          ELSE /\ fan_state' = fan_state
               /\ outcome' = outcome
               /\ lastSuccess' = lastSuccess
               /\ rec' = "attempt_end"
    /\ UNCHANGED << max_retries, args, everFailed, closes, terminates >>
    /\ UNCHANGED << sup, client, audio, text, frames, session, probe, connected,
                    intent, preState, log, sleeps, shutdownSeen,
                    clearedDuringRead, interrupted, joinTimedOut >>
    /\ UNCHANGED << ctlVars, flagVars >>

\* line 80: range(self.max_retries + 1) has another element after a
MoreAttempts_offbyone(a) == a <= max_retries

MoreAttempts(a) == a < max_retries

\* line 107: whether control() sleeps after failed attempt number a (from 0)
ShouldSleep_always(a) == TRUE

ShouldSleep(a) == a < max_retries

\* lines 80 and 110-111: the for loop takes its next element, or is exhausted
\* and control() returns False
control_loop_next_fatal ==
    IF MoreAttempts(attempt)
       THEN /\ attempt' = attempt + 1
            /\ rec' = "write_register"
            /\ UNCHANGED << outcome, everFailed >>
       ELSE /\ attempt' = attempt
            /\ rec' = "stop_stream"
            /\ outcome' = "failure"
            /\ everFailed' = TRUE

control_loop_next ==
    IF MoreAttempts(attempt)
       THEN /\ attempt' = attempt + 1
            /\ rec' = "write_register"
            /\ UNCHANGED << outcome, everFailed >>
       ELSE /\ attempt' = attempt
            /\ rec' = "check"
            /\ outcome' = "failure"
            /\ everFailed' = TRUE

\* lines 102-107: a failed attempt reaches the test of line 107
control_attempt_end ==
    /\ rec = "attempt_end"
    /\ IF ShouldSleep(attempt)
          THEN /\ rec' = "sleep"
               /\ UNCHANGED << attempt, outcome, everFailed >>
          ELSE control_loop_next
    /\ UNCHANGED << sup, fan_state, client, audio, text, frames, session, probe,
                    connected, intent, preState, log, sleeps, shutdownSeen,
                    clearedDuringRead, interrupted, joinTimedOut >>
    /\ UNCHANGED << state, response, flagVars >>
    /\ UNCHANGED << max_retries, args, closes, terminates, lastSuccess >>

\* line 108: time.sleep(retry_delay) ends
control_sleep ==
    /\ rec = "sleep"
    /\ sleeps' = sleeps + 1
    /\ control_loop_next
    /\ UNCHANGED << sup, fan_state, client, audio, text, state, response, frames,
                    session, probe, connected, intent, preState, log,
                    shutdownSeen, clearedDuringRead, interrupted, joinTimedOut >>
    /\ UNCHANGED flagVars
    /\ UNCHANGED << max_retries, args, closes, terminates, lastSuccess >>

\* ------------------------------------------------------------ specification
SupNext ==
    \/ start
    \/ modbus_connect
    \/ start_set_running
    \/ start_launch
    \/ start_wait
    \/ finally_clear
    \/ finally_join
    \/ finally_close
    \/ finally_terminate

RecNext ==
    \/ rec_open
    \/ rec_check
    \/ rec_read
    \/ rec_accept
    \/ voice_command
    \/ control_write_register
    \/ control_write_coil
    \/ control_check_response
    \/ control_attempt_end
    \/ control_sleep
    \/ rec_stop

Next ==
    \/ SupNext
    \/ RecNext
    \/ KeyboardInterrupt
    \/ process_exit

Spec == Init /\ [][Next]_vars

\* both contexts keep being scheduled; an interrupt need not ever arrive
FairSpec == Spec /\ WF_vars(SupNext) /\ WF_vars(RecNext) /\ WF_vars(process_exit)

\* ------------------------------------------- classification of utterances
\* building blocks of the utterances the classification check runs over
Chunks == OnPhrases \cup OffPhrases \cup
          { ExitPhrase, <<"da","kai">>, <<"feng","shan">>, <<"qing">>,
            <<"sp">>, <<"fwcomma">>, <<"fwstop">>, <<"comma">> }

RECURSIVE UtterancesOf(_)
UtterancesOf(n) ==
    IF n = 0 THEN { << >> }
    ELSE LET prev == UtterancesOf(n - 1)
         IN  prev \cup { u \o c : u \in prev, c \in Chunks }

Utterances == UtterancesOf(MaxChunks) \ { << >> }

\* The running system at the call of voice_command (line 161) with any
\* utterance, the fan off (nothing dispatched yet) or on (after one TurnOn
\* that the first write_register confirmed).
ClassifyInit ==
    /\ sup = "Running"
    /\ rec = "dispatch"
    /\ running = TRUE
    /\ client = "open"
    /\ audio = "ready"
    /\ text \in Utterances
    /\ session = "opened"
    /\ probe = "value"
    /\ connected = "True"
    /\ attempt = 0
    /\ sleeps = 0
    /\ flagSets = 1
    /\ flagClears = 0
    /\ clearer = "none"
    /\ shutdownSeen = FALSE
    /\ clearedDuringRead = FALSE
    /\ interrupted = FALSE
    /\ joinTimedOut = FALSE
    /\ preState = FALSE
    /\ max_retries = 2
    /\ everFailed = FALSE
    /\ closes = 0
    /\ terminates = 0
    /\ \/ /\ fan_state = FALSE
          /\ state = FALSE
          /\ response = "none"
          /\ frames = 1
          /\ intent = "None"
          /\ outcome = "none"
          /\ log = << >>
          /\ args = << >>
          /\ lastSuccess = "none"
       \/ /\ fan_state = TRUE
          /\ state = TRUE
          /\ response = "ok"
          /\ frames = 2
          /\ intent = "TurnOn"
          /\ outcome = "success"
          /\ log = << << "write_register", "ok" >> >>
          /\ args = << << fan_register, 1, slave_address >> >>
          /\ lastSuccess = "on"

ClassifyNext == voice_command

ClassifySpec == ClassifyInit /\ [][ClassifyNext]_vars

\* ------------------------------------------------- retry policy of control
\* The running system at the call of voice_command (line 161) with a TurnOn
\* heard while the fan is off, or a TurnOff heard while it is on (after one
\* TurnOn that the first write_register confirmed), for every
\* self.max_retries from 0 to MaxRetries.
PolicyInit ==
    /\ sup = "Running"
    /\ rec = "dispatch"
    /\ running = TRUE
    /\ client = "open"
    /\ audio = "ready"
    /\ session = "opened"
    /\ probe = "value"
    /\ connected = "True"
    /\ attempt = 0
    /\ sleeps = 0
    /\ flagSets = 1
    /\ flagClears = 0
    /\ clearer = "none"
    /\ shutdownSeen = FALSE
    /\ clearedDuringRead = FALSE
    /\ interrupted = FALSE
    /\ joinTimedOut = FALSE
    /\ preState = FALSE
    /\ max_retries \in 0..MaxRetries
    /\ everFailed = FALSE
    /\ closes = 0
    /\ terminates = 0
    /\ \/ /\ text = <<"da","kai","feng","shan">>
          /\ fan_state = FALSE
          /\ state = FALSE
          /\ response = "none"
          /\ frames = 1
          /\ intent = "None"
          /\ outcome = "none"
          /\ log = << >>
          /\ args = << >>
          /\ lastSuccess = "none"
       \/ /\ text = <<"guan","bi","feng","shan">>
          /\ fan_state = TRUE
          /\ state = TRUE
          /\ response = "ok"
          /\ frames = 2
          /\ intent = "TurnOn"
          /\ outcome = "success"
          /\ log = << << "write_register", "ok" >> >>
          /\ args = << << fan_register, 1, slave_address >> >>
          /\ lastSuccess = "on"

PolicyNext ==
    \/ voice_command
    \/ control_write_register
    \/ control_write_coil
    \/ control_check_response
    \/ control_attempt_end
    \/ control_sleep

PolicySpec == PolicyInit /\ [][PolicyNext]_vars

\* =========================================================== properties
\* positions of the recognition thread inside control()
ControlPcs == {"write_register", "write_coil", "check_response", "attempt_end", "sleep"}

\* the last control() call has returned to voice_recognition
Returned == rec \notin ControlPcs \cup {"killed"}

\* log entries that end an attempt in failure / in success
FailEntries == { << "write_register", "fault" >>, << "write_coil", "err" >>,
                 << "write_coil", "fault" >> }
OkEntries   == { << "write_register", "ok" >>, << "write_coil", "ok" >> }

CountIn(l, S) == Cardinality({ k \in 1..Len(l) : l[k] \in S })
FailedAttempts(l) == CountIn(l, FailEntries)
Attempts(l) == Cardinality({ k \in 1..Len(l) : l[k][1] = "write_register" })

\* C1: a TurnOn/TurnOff request whose desired state equals fan_state issues
\* no write_register and no write_coil, ends as "already in that state"
\* (never as a failure), and leaves fan_state as it was.
C1_SkipIfUnchanged ==
    (intent \in {"TurnOn", "TurnOff"} /\ Desired(intent) = preState)
        => /\ log = << >>
           /\ sleeps = 0
           /\ outcome = "unchanged"
           /\ fan_state = preState
           /\ rec \notin ControlPcs

C1_Witness ==
    /\ intent = "TurnOn"
    /\ preState = TRUE
    /\ outcome = "unchanged"
    /\ rec = "check"

\* C2: when all max_retries+1 attempts of a control() call have failed
\* (register write by fault, or register error response followed by a coil
\* error response or fault), fan_state still has its value from before the
\* call, and once the call has returned it has returned failure.
C2_Exhaustion ==
    FailedAttempts(log) = max_retries + 1
        => /\ fan_state = preState
           /\ CountIn(log, OkEntries) = 0
           /\ outcome \in {"pending", "failure"}
           /\ (Returned => outcome = "failure")

C2_Witness ==
    /\ FailedAttempts(log) = max_retries + 1
    /\ outcome = "failure"
    /\ preState = TRUE
    /\ fan_state = TRUE
    /\ log[Len(log)] = << "write_coil", "err" >>
    /\ rec = "check"

\* C3: once a write of attempt N has answered without error, no further
\* transport call is issued (the successful write is the last entry of the
\* log), N is the number of failed attempts plus one and at most
\* max_retries+1, and once control() has returned it has returned success
\* with fan_state equal to the desired state.
C3_RetrySuccess ==
    CountIn(log, OkEntries) > 0
        => /\ log[Len(log)] \in OkEntries
           /\ CountIn(log, OkEntries) = 1
           /\ Attempts(log) = FailedAttempts(log) + 1
           /\ Attempts(log) <= max_retries + 1
           /\ (Returned => outcome = "success" /\ fan_state = Desired(intent))

C3_Witness ==
    /\ outcome = "success"
    /\ FailedAttempts(log) = max_retries
    /\ log[Len(log)] = << "write_coil", "ok" >>
    /\ fan_state = Desired(intent)
    /\ rec = "check"

\* C4: every step that changes fan_state is the step of control() that
\* follows a non-error write response (the last transport call logged is a
\* write that answered ok), sets it to the state that call asked for, and is
\* taken by the recognition thread: start(), modbus_connect and the cleanup
\* path never change it.
C4_OnlyControlWrites ==
    [][ fan_state' # fan_state
          => /\ rec = "check_response"
             /\ response = "ok"
             /\ log # << >> /\ log[Len(log)] \in OkEntries
             /\ fan_state' = state
             /\ state = Desired(intent)
             /\ intent \in {"TurnOn", "TurnOff"}
             /\ sup' = sup
             /\ rec' = "check" ]_vars

C4_Witness ==
    /\ fan_state # preState
    /\ outcome = "success"
    /\ sup \in {"Stopping", "Joining", "Closing", "Releasing"}

\* C5: once a Shutdown intent has been dispatched the flag is cleared and
\* stays cleared, the recognition loop issues no further stream.read, and
\* (both contexts being scheduled fairly) start() reaches Terminated with
\* the recognition thread ended.
C5_ShutdownPropagation ==
    /\ [](shutdownSeen => ~running)
    /\ [][shutdownSeen => frames' = frames]_vars
    /\ (shutdownSeen ~> (sup = "Terminated" /\ ~running /\ rec \in {"done", "killed"}))

C5_Witness ==
    /\ shutdownSeen
    /\ clearer = "voice_command"
    /\ ~interrupted
    /\ sup = "Terminated"
    /\ rec = "done"

\* C6: when start() clears the flag while the recognition thread sits in
\* stream.read, that step leaves the thread in the read; afterwards the
\* thread leaves the read only by the read returning, pulls no further
\* frame, and at its next loop test leaves the loop.
C6_CancellationBound ==
    /\ [][ (running /\ ~running' /\ rec = "read") => rec' = "read" ]_vars
    /\ [][ clearedDuringRead
             => /\ frames' = frames
                /\ (rec = "read" => rec' \in {"read", "check", "accept", "killed"})
                /\ (rec = "check" => rec' \in {"check", "stop_stream", "killed"})
                /\ (rec \in {"stop_stream", "done"}
                       => rec' \in {"stop_stream", "done", "killed"}) ]_vars

C6_Witness ==
    /\ clearedDuringRead
    /\ clearer = "start"
    /\ rec = "done"
    /\ intent # "None"

\* C7: self.running goes from clear to set at most once, in start() after
\* modbus_connect returned True and before any clearing; it goes from set to
\* clear at most once, by the Shutdown branch of voice_command or by the
\* finally block of start(); once cleared it is never set again; and a run
\* that set it ends with it cleared.
C7_RunningFlagMonotonic ==
    /\ [](flagSets <= 1 /\ flagClears <= 1)
    /\ [](flagClears = 1 => ~running)
    /\ []((sup = "Terminated" /\ flagSets = 1) => (flagClears = 1 /\ ~running))
    /\ [][ (~running /\ running')
             => sup = "SetRunning" /\ connected = "True" /\ flagSets = 0
                /\ flagClears = 0 ]_vars
    /\ [][ (running /\ ~running')
             => \/ rec = "dispatch" /\ intent' = "Shutdown" /\ clearer' = "voice_command"
                \/ sup = "Stopping" /\ clearer' = "start" ]_vars

C7_Witness ==
    /\ flagSets = 1
    /\ flagClears = 1
    /\ clearer = "start"
    /\ interrupted
    /\ shutdownSeen
    /\ sup = "Terminated"

\* C8: when modbus_connect returns False, start() is Terminated at once:
\* the flag was never set, the recognition thread was never launched, no
\* frame was pulled, no write was issued and fan_state is untouched.
C8_ConnectFailureAborts ==
    connected = "False"
        => /\ sup = "Terminated"
           /\ ~running
           /\ flagSets = 0
           /\ rec = "idle"
           /\ frames = 0
           /\ log = << >>
           /\ intent = "None"
           /\ fan_state = FALSE

C8_Witness ==
    /\ connected = "False"
    /\ session = "refused"
    /\ client = "unopened"
    /\ sup = "Terminated"

\* C9: whenever the session open succeeded, modbus_connect reports the
\* connection established, whatever the read probe did.
C9_ProbeNeverFatal ==
    (session = "opened" /\ connected # "none") => connected = "True"

\* C10: the intent dispatched for an utterance is TurnOn if the cleaned
\* text contains a TurnOn phrase, else TurnOff if it contains a TurnOff
\* phrase, else Shutdown if it contains the Shutdown phrase, else Unknown;
\* and an intent is dispatched only by the call of voice_command, which
\* takes the thread out of the dispatch position.
Occurs(s, p) ==
    \E off \in 0..Len(s) :
        /\ off + Len(p) <= Len(s)
        /\ \A k \in 1..Len(p) : s[off + k] = p[k]

Stripped(t) ==
    LET keep == { k \in 1..Len(t) : t[k] # "sp" /\ t[k] # "fwcomma" /\ t[k] # "fwstop" }
        nth(j) == CHOOSE k \in keep : Cardinality({ m \in keep : m < k }) = j - 1
    IN  [ j \in 1..Cardinality(keep) |-> t[nth(j)] ]

SaysOn(t)   == \E p \in OnPhrases : Occurs(Stripped(t), p)
SaysOff(t)  == \E p \in OffPhrases : Occurs(Stripped(t), p)
SaysExit(t) == Occurs(Stripped(t), ExitPhrase)

C10_ClassificationPriority ==
    /\ [](intent \in {"None", "TurnOn", "TurnOff", "Shutdown", "Unknown"})
    /\ []((rec \notin {"dispatch", "killed"} /\ intent # "None")
            => /\ (SaysOn(text) => intent = "TurnOn")
               /\ (~SaysOn(text) /\ SaysOff(text) => intent = "TurnOff")
               /\ (~SaysOn(text) /\ ~SaysOff(text) /\ SaysExit(text)
                      => intent = "Shutdown")
               /\ (~SaysOn(text) /\ ~SaysOff(text) /\ ~SaysExit(text)
                      => intent = "Unknown"))
    /\ [][ intent' # intent => (rec = "dispatch" /\ rec' # "dispatch") ]_vars

C10_Witness ==
    /\ rec # "dispatch"
    /\ intent = "TurnOff"
    /\ SaysOff(text)
    /\ SaysExit(text)
    /\ Len(Stripped(text)) < Len(text)

\* C11: the step in which control() returns False leaves the flag, start()
\* and fan_state as they are and takes the thread back to the loop test;
\* after a failure the flag is still set as long as no Shutdown was
\* dispatched and start() is still in its wait, and the loop test then
\* pulls the next frame.
C11_ControlFailureNotFatal ==
    /\ [][ (outcome' = "failure" /\ outcome # "failure")
             => /\ rec' = "check"
                /\ UNCHANGED << running, sup, fan_state >> ]_vars
    /\ []((everFailed /\ ~shutdownSeen /\ sup = "Running") => running)
    /\ [][ (everFailed /\ running /\ rec = "check" /\ rec' # rec /\ rec' # "killed")
             => (rec' = "read" /\ frames' = frames + 1) ]_vars

C11_Witness ==
    /\ everFailed
    /\ outcome = "success"
    /\ running
    /\ rec = "read"

\* a transport call raises in this step
FaultStep == Len(log') = Len(log) + 1 /\ log'[Len(log')][2] = "fault"

\* positions the code gives the recognition thread
RecPcs == {"idle", "open", "check", "read", "accept", "dispatch", "write_register",
           "write_coil", "check_response", "attempt_end", "sleep", "stop_stream",
           "done", "killed"}

\* C12: an exception raised by write_register or write_coil is caught inside
\* control(): the step leaves the flag, fan_state and start() alone and ends
\* the attempt as failed; if that attempt was not the last one, control()
\* does not return before it has issued the write_register of the next
\* attempt; and the thread is never anywhere but in its code.
C12_FaultIsFailedAttempt ==
    /\ [](rec \in RecPcs)
    /\ [][ FaultStep
             => /\ rec' = "attempt_end"
                /\ outcome' = "pending"
                /\ UNCHANGED << running, sup, fan_state, attempt >> ]_vars
    /\ [](\A k \in 1..Len(log) :
             log[k][2] = "fault"
                => /\ (k < Len(log) => log[k + 1][1] = "write_register")
                   /\ (k = Len(log) /\ Attempts(log) <= max_retries
                          => rec \in {"attempt_end", "sleep", "write_register", "killed"})
                   /\ (k = Len(log) /\ Returned
                          => outcome = "failure" /\ Attempts(log) = max_retries + 1))

C12_Witness ==
    /\ Len(log) = 3
    /\ log[1] = << "write_register", "fault" >>
    /\ log[2] = << "write_register", "err" >>
    /\ log[3] = << "write_coil", "fault" >>
    /\ rec = "sleep"
    /\ running

\* C13: the transport calls of one control() call, for every
\* self.max_retries from 0 up: the first call is a write_register; a
\* write_coil directly follows a write_register that answered with an error
\* and carries the same address, value and slave; a further write_register
\* only follows a failed attempt, never a successful one; there are at most
\* max_retries+1 attempts, exactly that many when control() returns False,
\* and at least one whenever control() has returned.
C13_AttemptStructure ==
    /\ Len(args) = Len(log)
    /\ \A k \in 1..Len(log) :
          /\ log[k][1] \in {"write_register", "write_coil"}
          /\ args[k] = << fan_register, (IF state THEN 1 ELSE 0), slave_address >>
          /\ (k = 1 => log[k][1] = "write_register")
          /\ (log[k][1] = "write_coil"
                 => /\ k > 1
                    /\ log[k - 1] = << "write_register", "err" >>
                    /\ args[k] = args[k - 1])
          /\ (log[k][1] = "write_register" /\ k > 1 => log[k - 1] \in FailEntries)
    /\ Attempts(log) <= max_retries + 1
    /\ (outcome \in {"success", "failure"} => Attempts(log) >= 1)
    /\ (outcome = "failure" => Attempts(log) = max_retries + 1)

C13_Witness ==
    /\ max_retries = 0
    /\ outcome = "failure"
    /\ log = << << "write_register", "err" >>, << "write_coil", "err" >> >>
    /\ args = << << 0, 0, 2 >>, << 0, 0, 2 >> >>
    /\ rec = "check"

\* C14: time.sleep(retry_delay) is called once between two consecutive
\* attempts and nowhere else: the sleeps of a control() call number one
\* less than its attempts, a sleep in progress follows a failed attempt
\* that is not attempt max_retries+1 and is followed by the next
\* write_register, a call that returns True has slept once per failed
\* attempt, and a call that returns False has slept exactly max_retries
\* times.
C14_RetryDelayPlacement ==
    /\ [](rec # "killed"
            => sleeps = IF rec = "write_register" THEN Attempts(log)
                        ELSE IF Attempts(log) = 0 THEN 0 ELSE Attempts(log) - 1)
    /\ [](rec = "sleep"
            => /\ log # << >> /\ log[Len(log)] \in FailEntries
               /\ Attempts(log) <= max_retries
               /\ outcome = "pending")
    /\ [](outcome = "success" => sleeps = FailedAttempts(log))
    /\ [](outcome = "failure" => sleeps = max_retries)
    /\ [][ sleeps' = sleeps + 1 => (rec = "sleep" /\ rec' = "write_register") ]_vars

C14_Witness ==
    /\ max_retries = 3
    /\ outcome = "failure"
    /\ sleeps = 3
    /\ Attempts(log) = 4
    /\ rec = "check"

\* C15: every run that set the flag and has reached Terminated has the
\* flag cleared, the client closed and the audio source terminated, each
\* release done once, whether the wait ended by a Shutdown intent or by an
\* interrupt and whether or not the join timed out; and once start() has
\* left its wait it reaches Terminated.
C15_CleanupOnEveryExit ==
    /\ [](closes <= 1 /\ terminates <= 1)
    /\ []((sup = "Terminated" /\ flagSets = 1)
            => /\ ~running
               /\ client = "closed"
               /\ audio = "terminated"
               /\ closes = 1
               /\ terminates = 1)
    /\ (sup = "Stopping" ~> sup = "Terminated")

C15_Witness ==
    /\ sup = "Terminated"
    /\ interrupted
    /\ joinTimedOut
    /\ ~shutdownSeen
    /\ closes = 1
    /\ terminates = 1
    /\ rec \in ControlPcs

\* the step is a call of voice_command that returns or enters control()
VoiceCommandStep == rec = "dispatch" /\ rec' \notin {"dispatch", "killed"}

\* the step issues a transport write
WriteStep == Len(log') = Len(log) + 1

\* C16: a voice_command call on a text containing none of the phrases
\* takes the Unknown branch, which leaves fan_state and the flag unchanged
\* and issues no write; a voice_command call on a text containing a TurnOn
\* or TurnOff phrase, and every step of the control() call it makes, leave
\* the flag unchanged.
C16_UnknownAndSwitchLeaveFlag ==
    /\ [][ (VoiceCommandStep /\ ~SaysOn(text) /\ ~SaysOff(text) /\ ~SaysExit(text))
             => /\ intent' = "Unknown"
                /\ log' = << >>
                /\ rec' = "check"
                /\ UNCHANGED << fan_state, running >> ]_vars
    /\ [][ (VoiceCommandStep /\ (SaysOn(text) \/ SaysOff(text)))
             => running' = running ]_vars
    /\ [][ (rec \in ControlPcs /\ rec' # rec) => running' = running ]_vars
    /\ [](intent = "Unknown" => (log = << >> /\ outcome = "none"))

C16_Witness ==
    /\ intent = "Unknown"
    /\ fan_state
    /\ running
    /\ rec = "read"

\* C17 as claimed: once the client is closed no write is issued.
C17_NoUseAfterRelease ==
    [][ client = "closed" => ~WriteStep ]_vars

\* C17 amended: a write issued after the client was closed only happens
\* when the join had timed out; when the join returned because the thread
\* had ended, the thread is done and no write follows the close.
C17_NoUseAfterReleaseUnlessJoinTimedOut ==
    /\ [][ (client = "closed" /\ WriteStep) => joinTimedOut ]_vars
    /\ []((client = "closed" /\ ~joinTimedOut) => rec = "done")

C17_Witness ==
    /\ client = "closed"
    /\ ~joinTimedOut
    /\ rec = "done"
    /\ lastSuccess = "on"
    /\ log # << >>

\* fan_state as the last successful control() left it
LastConfirmed == IF lastSuccess = "none" THEN FALSE ELSE lastSuccess = "on"

\* C18: no step of start() and no Shutdown dispatch changes fan_state or
\* issues a write, so at Terminated fan_state is the state asked for by the
\* last control() that returned True, or off if none did.
C18_ShutdownNeverDrivesDevice ==
    /\ [][ (sup' # sup \/ (VoiceCommandStep /\ intent' = "Shutdown"))
             => /\ fan_state' = fan_state
                /\ lastSuccess' = lastSuccess
                /\ ~WriteStep ]_vars
    /\ [](sup = "Terminated" => fan_state = LastConfirmed)

C18_Witness ==
    /\ sup = "Terminated"
    /\ shutdownSeen
    /\ fan_state
    /\ lastSuccess = "on"
    /\ rec = "done"

\* C19: fan_state is off until a control() call has returned True;
\* modbus_connect leaves it as it is for every probe outcome; so a TurnOff
\* dispatched before any successful TurnOn finds the fan off and issues no
\* write.
C19_InitiallyOffProbeIgnored ==
    /\ [](sup \in {"Idle", "Connecting", "SetRunning", "Launch"} => ~fan_state)
    /\ [](lastSuccess = "none" => ~fan_state)
    /\ [][ sup = "Connecting" => fan_state' = fan_state ]_vars
    /\ []((intent = "TurnOff" /\ lastSuccess = "none")
            => (log = << >> /\ outcome = "unchanged" /\ rec \notin ControlPcs))

C19_Witness ==
    /\ intent = "TurnOff"
    /\ lastSuccess = "none"
    /\ probe = "value"
    /\ outcome = "unchanged"
    /\ rec = "check"

====
